---- MODULE Spec2Model ----
(***************************************************************************)
(* A model of traad's Workspace (traad/rope/workspace.py) and of the       *)
(* XML-RPC ProjectServer (traad/server.py).                                *)
(*                                                                         *)
(*   SpecTraversal  get_all_resources, one loop iteration per step         *)
(*   Spec           one Workspace, every operation, a bounded call count   *)
(*   SpecRegistry   close / add_cross_project / remove_cross_project       *)
(*   SpecHistory    perform / undo / redo on one Workspace                 *)
(*   SpecServer     the ProjectServer's exposed operations                 *)
(***************************************************************************)
EXTENDS Integers, Sequences, FiniteSets, TLC

\* ------------------------------------------------------------------ bounds
MaxNodes == 5          \* resources in a traversed project
MaxCalls == 3          \* calls made on the Workspace under Spec
MaxRegistryCalls == 3  \* calls made on the Workspace under SpecRegistry
MaxHistoryCalls == 8   \* calls made on the Workspace under SpecHistory
MaxChangeSets == 2     \* change-sets computed on one Workspace
MaxInitCross == 2      \* length of the constructor's cross_project_dirs
MaxServerCalls == 3    \* requests served by the ProjectServer

VARIABLES
    \* get_all_resources: the project's resource tree and the generator
    nres,       \* number of resources of the project; resource 1 is the root
    parent,     \* parent[n]: the folder that holds resource n (n > 1)
    folder,     \* folder[n]: res.is_folder()
    todo,       \* the generator's queue of paths
    yielded,    \* the (path, is_folder) tuples yielded so far
    pc,         \* "loop" while the generator runs, "done" once it returned
    \* Workspace
    handles,        \* every rope Project constructed: [directory, closes];
                    \* handles[1] is self._root_project
    cross_projects, \* self._cross_projects, in insertion order: [key, handle]
    root,           \* the root project's files and history
    changesets,     \* the ChangeSet objects computed so far: [edits, state]
    last,           \* the most recent call and its outcome
    prev,           \* the call before it
    log,            \* the file contents after each perform / undo / redo
    budget,         \* calls still to be made
    \* ProjectServer
    proj,           \* self.proj: the served project's files and history
    reply           \* what the last request returned to the client

tvars == <<nres, parent, folder, todo, yielded, pc>>
wvars == <<handles, cross_projects, root, changesets, last, prev, log>>
svars == <<proj, reply>>

vars == <<nres, parent, folder, todo, yielded, pc,
          handles, cross_projects, root, changesets, last, prev, log, budget,
          proj, reply>>

\* -------------------------------------------------------- resource tree
Resources == 1..nres

\* res.path: the names from the project root down to the resource; the
\* root's path is the empty path ''.
RECURSIVE PathOf(_)
PathOf(n) == IF n = 1 THEN <<>> ELSE Append(PathOf(parent[n]), n)

\* proj.get_resource(res_path): the resource the path names
GetResourceByPath(p) == CHOOSE n \in Resources : PathOf(n) = p

\* the set of res.get_children()
Children(n) == {c \in Resources : c # 1 /\ parent[c] = n}

\* all orders in which get_children() may list a set of resources
Orderings(S) ==
    {s \in [1..Cardinality(S) -> S] : \A i, j \in 1..Cardinality(S) : i # j => s[i] # s[j]}

\* todo.extend(child.path for child in res.get_children())
ExtendFront(queue, kids) == kids \o queue
Extend(queue, kids) == queue \o kids

\* ----------------------------------------------------- files and change-sets
Files == {"m.py", "n.py"}
FileOrder == <<"m.py", "n.py">>
Contents == 0..2
InitContents == [f \in Files |-> 0]

\* what the refactoring engine may answer: the new contents of the files a
\* change-set rewrites
EditChoices == { ("m.py" :> 1), ("m.py" :> 2 @@ "n.py" :> 1), ("n.py" :> 2) }

\* the states of the three parts while another part is being explored
IdleTraversal ==
    /\ nres = 1
    /\ parent = [n \in 1..MaxNodes |-> 1]
    /\ folder = [n \in 1..MaxNodes |-> n = 1]
    /\ todo = <<>>
    /\ yielded = <<>>
    /\ pc = "idle"

NoCall == [op |-> "", dir |-> "", cs |-> 0, outcome |-> "", before |-> 0]

IdleWorkspace ==
    /\ handles = <<>>
    /\ cross_projects = <<>>
    /\ root = [contents |-> InitContents, entries |-> <<>>, cursor |-> 0]
    /\ changesets = <<>>
    /\ last = NoCall
    /\ prev = NoCall
    /\ log = <<>>

IdleServer ==
    /\ proj = [contents |-> InitContents, entries |-> <<>>, cursor |-> 0]
    /\ reply = [op |-> "", fault |-> "", value |-> [type |-> "None"]]

WellFormedTree ==
    /\ folder[1]
    /\ \A n \in Resources \ {1} : parent[n] < n /\ folder[parent[n]]

InitTraversal ==
    /\ nres \in 1..MaxNodes
    /\ parent \in [1..MaxNodes -> 1..MaxNodes]
    /\ folder \in [1..MaxNodes -> BOOLEAN]
    /\ \A n \in (nres+1)..MaxNodes : parent[n] = 1 /\ folder[n] = FALSE
    /\ parent[1] = 1
    /\ WellFormedTree
    /\ todo = <<PathOf(1)>>
    /\ yielded = <<>>
    /\ pc = "loop"
    /\ IdleWorkspace /\ IdleServer /\ budget = 0

\* one iteration of `while todo:`
VisitFolder ==
    /\ pc = "loop"
    /\ todo # <<>>
    /\ LET res == GetResourceByPath(Head(todo)) IN
        /\ folder[res]
        /\ yielded' = Append(yielded, <<PathOf(res), folder[res]>>)
        /\ \E order \in Orderings(Children(res)) :
              todo' = Extend(Tail(todo), [i \in DOMAIN order |-> PathOf(order[i])])
    /\ UNCHANGED <<nres, parent, folder, pc, wvars, budget, svars>>

VisitFile ==
    /\ pc = "loop"
    /\ todo # <<>>
    /\ LET res == GetResourceByPath(Head(todo)) IN
        /\ ~folder[res]
        /\ yielded' = Append(yielded, <<PathOf(res), folder[res]>>)
        /\ todo' = Tail(todo)
    /\ UNCHANGED <<nres, parent, folder, pc, wvars, budget, svars>>

\* `while todo:` is false: the generator returns
Finish ==
    /\ pc = "loop"
    /\ todo = <<>>
    /\ pc' = "done"
    /\ UNCHANGED <<nres, parent, folder, todo, yielded, wvars, budget, svars>>

NextTraversal == VisitFolder \/ VisitFile \/ Finish

SpecTraversal == InitTraversal /\ [][NextTraversal]_vars

\* ------------------------------------------------------------ directories
\* the spellings under which callers name directories; "r/" names the
\* directory "r", "a/" the directory "a"
Dirs == {"r", "r/", "a", "a/", "b"}
RootDirs == {"r", "r/"}

\* os.path.realpath(directory): the canonical spelling of a directory
RealPath(d) == IF d = "r/" THEN "r" ELSE IF d = "a/" THEN "a" ELSE d

\* a path is absolute (dir is the directory it lies in) or relative to the
\* project root (dir = "")
RelativePaths == {[dir |-> "", name |-> n] : n \in Files \cup {"gone.py"}}
AbsolutePaths == {[dir |-> "r", name |-> "m.py"], [dir |-> "r/", name |-> "n.py"],
                  [dir |-> "r", name |-> "gone.py"]}
PathInputs == RelativePaths \cup AbsolutePaths

IsAbs(path) == path.dir # ""

\* os.path.relpath(path, start)
RelPath(path, start) ==
    IF path.dir = start THEN [dir |-> "", name |-> path.name]
    ELSE [dir |-> "..", name |-> path.name]

\* project.root.real_path of a constructed Project
RootRealPath(h) == RealPath(h.directory)

\* Workspace.to_relative_path(path), project = self.root_project
to_relative_path(path) ==
    IF IsAbs(path)
    THEN RelPath([dir |-> RealPath(path.dir), name |-> path.name], RootRealPath(handles[1]))
    ELSE path

\* whether root_project.get_resource(path) finds a resource
ResourceExists(path) == path.dir = "" /\ path.name \in Files

\* the outcome of Workspace.get_resource(path)
GetResourceOutcome(path) ==
    IF ResourceExists(to_relative_path(path)) THEN "ok" ELSE "ResourceNotFoundError"

\* ------------------------------------------------- the _cross_projects dict
Keys(d) == {d[i].key : i \in DOMAIN d}
IndexOf(d, k) == CHOOSE i \in DOMAIN d : d[i].key = k

\* d[k] = v: a new key goes to the end, an existing key keeps its place
DictSet(d, k, v) ==
    IF k \in Keys(d)
    THEN [d EXCEPT ![IndexOf(d, k)].handle = v]
    ELSE Append(d, [key |-> k, handle |-> v])

\* del d[k], for a key the dict holds
DictDelNothing(d, k) == d
DictDel(d, k) ==
    LET i == IndexOf(d, k) IN
    [j \in 1..(Len(d) - 1) |-> IF j < i THEN d[j] ELSE d[j + 1]]

\* Workspace.projects: the root project, then the cross projects
Projects == <<1>> \o [i \in DOMAIN cross_projects |-> cross_projects[i].handle]

\* rope.base.project.Project(directory)
NewProject(directory) == [directory |-> directory, closes |-> 0]

\* --------------------------------------------- a project's files and history
ApplyEdits(contents, edits) ==
    [f \in Files |-> IF f \in DOMAIN edits THEN edits[f] ELSE contents[f]]

\* the edits that take the files back to `contents`
InverseOf(contents, edits) == [f \in DOMAIN edits |-> contents[f]]

\* HistoryStack.record: drop the entries beyond the cursor, append, advance
Record(p, entry) ==
    [p EXCEPT !.entries = Append(SubSeq(p.entries, 1, p.cursor), entry),
              !.cursor = p.cursor + 1]

\* project.do(changes): apply every edit, then record the entry
ProjectDo(p, edits) ==
    Record([p EXCEPT !.contents = ApplyEdits(p.contents, edits)],
           [edits |-> edits, inverse |-> InverseOf(p.contents, edits)])

\* HistoryStack.undo / redo, for a cursor that can move
ProjectUndo(p) ==
    [p EXCEPT !.contents = ApplyEdits(p.contents, p.entries[p.cursor].inverse),
              !.cursor = p.cursor - 1]
ProjectRedo(p) ==
    [p EXCEPT !.contents = ApplyEdits(p.contents, p.entries[p.cursor + 1].edits),
              !.cursor = p.cursor + 1]

\* ChangeToData()(changes): the change-set as nested plain values
changes_to_data(edits) ==
    [type |-> "ChangeSet",
     changes |-> [i \in DOMAIN SelectSeq(FileOrder, LAMBDA f : f \in DOMAIN edits) |->
                    LET f == SelectSeq(FileOrder, LAMBDA g : g \in DOMAIN edits)[i]
                    IN <<"ChangeContents", f, edits[f]>>]]

\* ------------------------------------------------------------- Workspace
\* Workspace(root_project_dir, cross_project_dirs), cross_dirs being
\* set(cross_project_dirs) and `order` the order the set is iterated in
Construct(root_project_dir, cross_dirs, order) ==
    /\ handles = <<NewProject(root_project_dir)>> \o
                 [i \in DOMAIN order |-> NewProject(order[i])]
    /\ cross_projects = [i \in DOMAIN order |-> [key |-> order[i], handle |-> i + 1]]
    /\ root = [contents |-> InitContents, entries |-> <<>>, cursor |-> 0]
    /\ changesets = <<>>
    /\ last = [NoCall EXCEPT !.op = "__init__", !.outcome = "ok"]
    /\ prev = NoCall
    /\ log = <<[op |-> "__init__", contents |-> InitContents]>>

Init ==
    /\ \E root_project_dir \in RootDirs, cross_project_dirs \in SUBSET Dirs :
          /\ Cardinality(cross_project_dirs) <= MaxInitCross
          /\ LET cross_dirs == cross_project_dirs \ {root_project_dir} IN
             \E order \in Orderings(cross_dirs) :
                Construct(root_project_dir, cross_dirs, order)
    /\ budget = MaxCalls
    /\ IdleTraversal /\ IdleServer

\* a call returns or raises: the caller sees the outcome
Call(op, dir, cs, outcome) ==
    /\ budget > 0
    /\ budget' = budget - 1
    /\ prev' = last
    /\ last' = [op |-> op, dir |-> dir, cs |-> cs, outcome |-> outcome,
                before |-> Len(cross_projects)]

close ==
    /\ Call("close", "", 0, "ok")
    /\ handles' = [handles EXCEPT ![1].closes = @ + 1]
    /\ UNCHANGED <<cross_projects, root, changesets, log, tvars, svars>>

add_cross_project(directory) ==
    /\ Call("add_cross_project", directory, 0, "ok")
    /\ handles' = Append(handles, NewProject(directory))
    /\ cross_projects' = DictSet(cross_projects, directory, Len(handles) + 1)
    /\ UNCHANGED <<root, changesets, log, tvars, svars>>

remove_cross_project(directory) ==
    /\ IF directory \in Keys(cross_projects)
       THEN /\ Call("remove_cross_project", directory, 0, "ok")
            /\ cross_projects' = DictDel(cross_projects, directory)
       ELSE /\ Call("remove_cross_project", directory, 0, "KeyError")
            /\ UNCHANGED cross_projects
    /\ UNCHANGED <<handles, root, changesets, log, tvars, svars>>

get_resource(path) ==
    /\ Call("get_resource", "", 0, GetResourceOutcome(path))
    /\ UNCHANGED <<handles, cross_projects, root, changesets, log, tvars, svars>>

\* the engine computes a change-set for the resource at path, or fails
Refactor(op, path) ==
    /\ Len(changesets) < MaxChangeSets
    /\ \/ /\ GetResourceOutcome(path) # "ok"
          /\ Call(op, "", 0, GetResourceOutcome(path))
          /\ UNCHANGED changesets
       \/ /\ GetResourceOutcome(path) = "ok"
          /\ Call(op, "", 0, "RefactoringError")
          /\ UNCHANGED changesets
       \/ /\ GetResourceOutcome(path) = "ok"
          /\ \E edits \in EditChoices :
                changesets' = Append(changesets, [edits |-> edits, state |-> "Computed"])
          /\ Call(op, "", Len(changesets) + 1, "ok")
    /\ UNCHANGED <<handles, cross_projects, root, log, tvars, svars>>

get_changes(path) == Refactor("get_changes", path)
rename(path) == Refactor("rename", path)
inline(path) == Refactor("inline", path)

\* a query of the engine about the resource at path
Query(op, path) ==
    /\ Call(op, "", 0, GetResourceOutcome(path))
    /\ UNCHANGED <<handles, cross_projects, root, changesets, log, tvars, svars>>

code_assist(path) == Query("code_assist", path)
get_doc(path) == Query("get_doc", path)
get_calltip(path) == Query("get_calltip", path)

\* self.root_project.do(changes)
DoUnrecorded(p, edits) == [p EXCEPT !.contents = ApplyEdits(p.contents, edits)]
RootProjectDo(p, edits) == ProjectDo(p, edits)

perform(c) ==
    /\ c \in DOMAIN changesets
    /\ Call("perform", "", c, "ok")
    /\ root' = RootProjectDo(root, changesets[c].edits)
    /\ changesets' = [changesets EXCEPT ![c].state = "Applied"]
    /\ log' = Append(log, [op |-> "perform", contents |-> root'.contents])
    /\ UNCHANGED <<handles, cross_projects, tvars, svars>>

undo ==
    /\ IF root.cursor > 0
       THEN Call("undo", "", 0, "ok") /\ root' = ProjectUndo(root)
       ELSE Call("undo", "", 0, "nothing to undo") /\ UNCHANGED root
    /\ log' = Append(log, [op |-> "undo", contents |-> root'.contents])
    /\ UNCHANGED <<handles, cross_projects, changesets, tvars, svars>>

redo ==
    /\ IF root.cursor < Len(root.entries)
       THEN Call("redo", "", 0, "ok") /\ root' = ProjectRedo(root)
       ELSE Call("redo", "", 0, "nothing to redo") /\ UNCHANGED root
    /\ log' = Append(log, [op |-> "redo", contents |-> root'.contents])
    /\ UNCHANGED <<handles, cross_projects, changesets, tvars, svars>>

Next ==
    \/ close
    \/ \E directory \in Dirs : add_cross_project(directory)
    \/ \E directory \in Dirs : remove_cross_project(directory)
    \/ \E path \in PathInputs : get_resource(path)
    \/ \E path \in PathInputs : get_changes(path)
    \/ \E path \in PathInputs : rename(path)
    \/ \E path \in PathInputs : inline(path)
    \/ \E path \in PathInputs : code_assist(path)
    \/ \E path \in PathInputs : get_doc(path)
    \/ \E path \in PathInputs : get_calltip(path)
    \/ \E c \in 1..MaxChangeSets : perform(c)
    \/ undo
    \/ redo

Spec == Init /\ [][Next]_vars

\* one Workspace without cross projects, its change-sets and its history
InitHistory ==
    /\ Construct("r", {}, <<>>)
    /\ budget = MaxHistoryCalls
    /\ IdleTraversal /\ IdleServer

NextHistory ==
    \/ \E path \in RelativePaths : rename(path)
    \/ \E c \in 1..MaxChangeSets : perform(c)
    \/ undo
    \/ redo

SpecHistory == InitHistory /\ [][NextHistory]_vars

\* one Workspace and its registry of cross projects
InitRegistry ==
    /\ \E root_project_dir \in RootDirs, cross_project_dirs \in SUBSET Dirs :
          /\ Cardinality(cross_project_dirs) <= MaxInitCross
          /\ LET cross_dirs == cross_project_dirs \ {root_project_dir} IN
             \E order \in Orderings(cross_dirs) :
                Construct(root_project_dir, cross_dirs, order)
    /\ budget = MaxRegistryCalls
    /\ IdleTraversal /\ IdleServer

NextRegistry ==
    \/ close
    \/ \E directory \in Dirs : add_cross_project(directory)
    \/ \E directory \in Dirs : remove_cross_project(directory)

SpecRegistry == InitRegistry /\ [][NextRegistry]_vars

\* ----------------------------------------------------------- ProjectServer
ServerProjectDir == "r"

InitServer ==
    /\ proj = [contents |-> InitContents, entries |-> <<>>, cursor |-> 0]
    /\ reply = [op |-> "__init__", fault |-> "", value |-> [type |-> "None"]]
    /\ budget = MaxServerCalls
    /\ IdleTraversal /\ IdleWorkspace

\* what a request returns: a value, or a fault naming the exception raised
Return(op, value) ==
    /\ budget > 0
    /\ budget' = budget - 1
    /\ reply' = [op |-> op, fault |-> "", value |-> value]
Fault(op, exception) ==
    /\ budget > 0
    /\ budget' = budget - 1
    /\ reply' = [op |-> op, fault |-> exception, value |-> [type |-> "None"]]

\* self.proj.do(renamer.get_changes(new_name))
rename_without_do(p, edits) == p
rename_do(p, edits) == ProjectDo(p, edits)

\* ProjectServer.rename(new_name, path, offset): the function has no return
\* statement, so the client is answered None
ServerRename(path) ==
    /\ \/ /\ ~ResourceExists(path)
          /\ Fault("rename", "ResourceNotFoundError")
          /\ UNCHANGED proj
       \/ /\ ResourceExists(path)
          /\ Fault("rename", "RefactoringError")
          /\ UNCHANGED proj
       \/ /\ ResourceExists(path)
          /\ \E edits \in EditChoices : proj' = rename_do(proj, edits)
          /\ Return("rename", [type |-> "None"])
    /\ UNCHANGED <<tvars, wvars>>

\* ProjectServer.get_children(path); the served project holds Files at its root
ServerGetChildren(path) ==
    /\ LET rel == IF IsAbs(path) THEN RelPath(path, ServerProjectDir) ELSE path IN
       IF rel = [dir |-> "", name |-> ""]
       THEN \E order \in Orderings(Files) :
               Return("get_children",
                      [type |-> "list",
                       items |-> [i \in DOMAIN order |-> <<order[i], FALSE>>]])
       ELSE IF ResourceExists(rel)
       THEN Fault("get_children", "AttributeError")
       ELSE Fault("get_children", "ResourceNotFoundError")
    /\ UNCHANGED <<proj, tvars, wvars>>

ServerPaths == RelativePaths \cup {[dir |-> "", name |-> ""], [dir |-> "r", name |-> ""],
                                   [dir |-> "r", name |-> "m.py"]}

NextServer ==
    \/ \E path \in ServerPaths : ServerRename(path)
    \/ \E path \in ServerPaths : ServerGetChildren(path)

SpecServer == InitServer /\ [][NextServer]_vars

\* ------------------------------------------------------------------ C1
YieldedPaths == {yielded[i][1] : i \in DOMAIN yielded}
PositionOf(n) == CHOOSE i \in DOMAIN yielded : yielded[i][1] = PathOf(n)

\* C1: get_all_resources yields the project root first and then every
\* resource exactly once in level order: a folder before its children, a
\* resource at depth d before any resource at depth d+1; the queue and the
\* output never hold more than the tree, and the generator returns exactly
\* when the queue is empty.
C1_LevelOrder ==
    /\ Len(yielded) + Len(todo) <= nres
    /\ (yielded # <<>>) => yielded[1] = <<PathOf(1), TRUE>>
    /\ \A i, j \in DOMAIN yielded :
          /\ (i # j) => yielded[i][1] # yielded[j][1]
          /\ (i < j) => Len(yielded[i][1]) <= Len(yielded[j][1])
    /\ \A i \in DOMAIN yielded :
          yielded[i][2] = folder[GetResourceByPath(yielded[i][1])]
    /\ (pc = "done") =>
          /\ todo = <<>>
          /\ YieldedPaths = {PathOf(n) : n \in Resources}
          /\ Len(yielded) = nres
          /\ \A n \in Resources \ {1} : PositionOf(parent[n]) < PositionOf(n)

\* a finished traversal of a tree with a file and a non-empty folder side by side
C1_Witness ==
    /\ pc = "done"
    /\ nres >= 4
    /\ \E n, m \in Resources : n # m /\ Len(PathOf(n)) = 1 /\ Len(PathOf(m)) = 2
                               /\ PositionOf(n) > 2

\* ------------------------------------------------------------------ C2
\* C2: perform on a ChangeSet that has already been applied fails fast with
\* AlreadyApplied and leaves the files and the history unchanged.
C2_ApplyAtMostOnce ==
    [][\A c \in DOMAIN changesets :
          (/\ changesets[c].state = "Applied"
           /\ budget' < budget
           /\ last'.op = "perform"
           /\ last'.cs = c)
          => (last'.outcome = "AlreadyApplied" /\ root' = root)]_vars

\* ------------------------------------------------------------------ C3
\* C3: once close() has been called, every further operation fails with
\* WorkspaceClosed and changes no state of the Workspace.
C3_ClosedRejectsAll ==
    [][(/\ handles[1].closes > 0
        /\ budget' < budget
        /\ last'.op # "close")
       => (/\ last'.outcome = "WorkspaceClosed"
           /\ handles' = handles
           /\ cross_projects' = cross_projects
           /\ root' = root
           /\ changesets' = changesets)]_vars

\* ------------------------------------------------------------------ C4
\* C4: when close() returns, every Project handle the Workspace created has
\* been closed exactly once.
C4_ClosedExactlyOnce ==
    (last.op = "close") => \A h \in DOMAIN handles : handles[h].closes = 1

\* ------------------------------------------------------------------ C5
\* C5: remove_cross_project on a directory that is not registered fails with
\* NotFound and leaves the registry and the root project unchanged.
C5_RemoveUnregisteredNotFound ==
    [][(/\ budget' < budget
        /\ last'.op = "remove_cross_project"
        /\ last'.dir \notin Keys(cross_projects))
       => (/\ last'.outcome = "NotFound"
           /\ cross_projects' = cross_projects
           /\ handles' = handles
           /\ root' = root)]_vars

\* ------------------------------------------------------------------ C6
\* C6: no registered cross project has the directory of the root project.
C6_RootNeverCross ==
    \A i \in DOMAIN cross_projects :
        RootRealPath(handles[cross_projects[i].handle]) # RootRealPath(handles[1])

\* ------------------------------------------------------------------ C7
\* C7: the registry holds at most one handle per canonical directory.
C7_OnePerCanonicalDir ==
    \A i, j \in DOMAIN cross_projects :
        (i # j) => RealPath(cross_projects[i].key) # RealPath(cross_projects[j].key)

\* ------------------------------------------------------------------ C8
\* C8: on a Workspace without cross projects, add_cross_project(dirX)
\* followed by remove_cross_project(dirX) succeeds, and the projects are then
\* exactly the root project.
C8_AddThenRemove ==
    [][(/\ budget' < budget
        /\ last.op = "add_cross_project"
        /\ last.before = 0
        /\ last'.op = "remove_cross_project"
        /\ last'.dir = last.dir)
       => (last'.outcome = "ok" /\ Projects' = <<1>>)]_vars

C8_Witness ==
    /\ last.op = "remove_cross_project"
    /\ last.outcome = "ok"
    /\ prev.op = "add_cross_project"
    /\ prev.before = 0
    /\ prev.dir = last.dir
    /\ Projects = <<1>>

\* ------------------------------------------------------------------ C9
\* the request of this step is a rename the server answered without a fault
RenameServed == budget' < budget /\ reply'.op = "rename" /\ reply'.fault = ""

\* C9 as stated: rename computes the change-set, applies it at once and
\* returns the change-set's wire data.
C9_ReturnsWireData ==
    [][RenameServed =>
          /\ Len(proj'.entries) = proj.cursor + 1
          /\ proj'.contents = ApplyEdits(proj.contents, proj'.entries[proj'.cursor].edits)
          /\ reply'.value = changes_to_data(proj'.entries[proj'.cursor].edits)]_vars

\* C9 as amended: rename computes the change-set and applies it at once to
\* the served project (files rewritten, entry recorded); the client is
\* answered None, not the change-set's wire data.
C9_AppliesAndReturnsNone ==
    [][RenameServed =>
          /\ Len(proj'.entries) = proj.cursor + 1
          /\ proj'.cursor = proj.cursor + 1
          /\ proj'.contents = ApplyEdits(proj.contents, proj'.entries[proj'.cursor].edits)
          /\ proj'.entries[proj'.cursor].edits \in EditChoices
          /\ reply'.value = [type |-> "None"]]_vars

C9_Witness ==
    /\ reply.op = "rename"
    /\ reply.fault = ""
    /\ proj.cursor >= 1
    /\ proj.contents # InitContents
    /\ reply.value # changes_to_data(proj.entries[proj.cursor].edits)

\* ----------------------------------------------------------------- C10
AllOps(from, to, op) == \A k \in from..to : log[k].op = op

\* C10: after N change-sets applied in a row through perform, N undos bring
\* the files back to what they were before the first perform, and N redos
\* after that bring them to what they were after the last perform.
C10_UndoRedoRestores ==
    \A i \in DOMAIN log : \A n \in 1..Len(log) :
        (/\ i + 2 * n <= Len(log)
         /\ AllOps(i + 1, i + n, "perform")
         /\ AllOps(i + n + 1, i + 2 * n, "undo"))
        => /\ log[i + 2 * n].contents = log[i].contents
           /\ (i + 3 * n <= Len(log) /\ AllOps(i + 2 * n + 1, i + 3 * n, "redo"))
                 => log[i + 3 * n].contents = log[i + n].contents

\* two different change-sets applied, undone and redone
C10_Witness ==
    \E i \in DOMAIN log :
        /\ i + 6 <= Len(log)
        /\ AllOps(i + 1, i + 2, "perform")
        /\ AllOps(i + 3, i + 4, "undo")
        /\ AllOps(i + 5, i + 6, "redo")
        /\ log[i + 1].contents # log[i].contents
        /\ log[i + 2].contents # log[i + 1].contents
        /\ log[i + 2].contents # log[i].contents

====
